---- MODULE Spec2Model ----
(***************************************************************************)
(* A model of ngx (src/src/index.ts): the tool's configuration store, the  *)
(* registry of nginx site records, the enable/disable toggle, site         *)
(* creation and the three editor flows, over an explicit file system.      *)
(*                                                                         *)
(* Abstractions: a text is modelled by its structure (a YAML document by   *)
(* its keys, a site file by its directive lines); a site name is one of    *)
(* AllNames, whose position is its rank under localeCompare; a file-system *)
(* call can fail for reasons outside the program (permissions, a read-only *)
(* mount), which is an input of the action that makes the call.            *)
(***************************************************************************)
EXTENDS Integers, Sequences, FiniteSets, TLC

VARIABLES
    pc,                        \* "start", "idle", "editing", "render", "exited", "crashed"
    fs,                        \* the file system: path -> node, for the paths that exist
    config,                    \* the process-wide Config object
    nginxServers,              \* the registry: sequence of NginxServer records
    lastFailedNewSiteContent,  \* the saved new-site draft, or NoDraft (null)
    editor,                    \* the handler suspended in tempEditor, or NoEditor
    last                       \* outcome of the handler that has just completed

vars == <<pc, fs, config, nginxServers, lastFailedNewSiteContent, editor, last>>

-----------------------------------------------------------------------------
(* Bounds *)

MaxSites == 2

-----------------------------------------------------------------------------
(* Names and paths *)

AllNames == <<"a", "b", "c", "d">>
Names == {AllNames[i] : i \in 1..MaxSites}
Rank(n) == CHOOSE i \in 1..Len(AllNames) : AllNames[i] = n

\* String.prototype.localeCompare on site names
localeCompare(a, b) ==
    IF Rank(a) < Rank(b) THEN -1 ELSE IF Rank(a) > Rank(b) THEN 1 ELSE 0

Join(dir, name) == dir \o "/" \o name

HomeNgx == "~/.ngx"
HomeConfigNgx == "~/.config/ngx"
configPath == Join(HomeNgx, "ngx.yaml")

DefaultNginxPath == "/etc/nginx"
DefaultVhosts == "/var/www/html"
OptNginxPath == "/opt/nginx"
SrvAvailable == "/srv/sites-available"
SrvEnabled == "/srv/sites-enabled"
SrvVhosts == "/srv/www"
MissingDir == "/mnt/missing"

-----------------------------------------------------------------------------
(* File system *)

Dir == [kind |-> "dir"]
File(data) == [kind |-> "file", data |-> data]
Link(target) == [kind |-> "link", target |-> target]

\* fs.existsSync: follows a symbolic link, so a dangling link does not exist
existsSync(f, p) ==
    /\ p \in DOMAIN f
    /\ f[p].kind = "link" =>
          (f[p].target \in DOMAIN f /\ f[f[p].target].kind # "link")

IsDir(f, p) == p \in DOMAIN f /\ f[p].kind = "dir"

\* the regular file a path resolves to
Resolve(f, p) == IF f[p].kind = "link" THEN f[p].target ELSE p

CanRead(f, p) == existsSync(f, p) /\ f[Resolve(f, p)].kind = "file"

\* fs.readFileSync on a readable path
readFileSync(f, p) == f[Resolve(f, p)].data

Put(f, p, node) == [q \in DOMAIN f \cup {p} |-> IF q = p THEN node ELSE f[q]]

\* fs.writeFileSync(dir/name, data) can succeed: the directory is there and the
\* path is not a directory
CanWrite(f, dir, name) ==
    /\ IsDir(f, dir)
    /\ Join(dir, name) \in DOMAIN f => f[Join(dir, name)].kind # "dir"

\* fs.writeFileSync: writes through a symbolic link
writeFileSync(f, dir, name, data) ==
    LET p == Join(dir, name)
        q == IF p \in DOMAIN f /\ f[p].kind = "link" THEN f[p].target ELSE p
    IN  Put(f, q, File(data))

\* fs.symlinkSync(target, dir/name) can succeed
CanSymlink(f, dir, name) == IsDir(f, dir) /\ Join(dir, name) \notin DOMAIN f

symlinkSync(f, target, dir, name) == Put(f, Join(dir, name), Link(target))

\* fs.rmSync(path) without force or recursive
CanRm(f, p) == p \in DOMAIN f /\ f[p].kind # "dir"

rmSync(f, p) == [q \in DOMAIN f \ {p} |-> f[q]]

\* fs.mkdirSync(path, {recursive: true}): no error when the directory exists
mkdirSync(f, p) == IF p \in DOMAIN f THEN f ELSE Put(f, p, Dir)

\* fs.readdirSync: the entry names of a directory
EntryNames(f, dir) == {n \in Names : Join(dir, n) \in DOMAIN f}

-----------------------------------------------------------------------------
(* Configuration (refreshConfig) *)

Unset == "<unset>"

Doc(np, sa, se, dv) ==
    [kind |-> "map", nginxPath |-> np, sitesAvailable |-> sa,
     sitesEnabled |-> se, defaultVhosts |-> dv]

\* a text YAML.parse throws on
BadYaml == [kind |-> "bad", nginxPath |-> Unset, sitesAvailable |-> Unset,
            sitesEnabled |-> Unset, defaultVhosts |-> Unset]

\* the document refreshConfig writes when the file is absent
DefaultDoc ==
    Doc(DefaultNginxPath, Join(DefaultNginxPath, "sites-available"),
        Join(DefaultNginxPath, "sites-enabled"), DefaultVhosts)

\* the configuration texts the user can leave in the file
ConfigDocs ==
    { DefaultDoc,
      Doc(Unset, Unset, Unset, Unset),
      Doc(OptNginxPath, Unset, Unset, Unset),
      Doc(Unset, SrvAvailable, SrvEnabled, SrvVhosts),
      Doc(Unset, MissingDir, Unset, Unset),
      BadYaml }

\* new Config(): every field undefined
NewConfig == [nginxPath |-> "", sitesAvailable |-> "", sitesEnabled |-> "",
              defaultVhosts |-> ""]

\* Object.assign(config, yamlConfig): only the keys the document has
ObjectAssign(cfg, doc) ==
    [k \in DOMAIN cfg |-> IF doc[k] = Unset THEN cfg[k] ELSE doc[k]]

\* the four ||= lines, in order
Fallbacks(cfg) ==
    LET np == IF cfg.nginxPath = "" THEN DefaultNginxPath ELSE cfg.nginxPath
    IN  [nginxPath |-> np,
         sitesAvailable |-> IF cfg.sitesAvailable = ""
                            THEN Join(np, "sites-available") ELSE cfg.sitesAvailable,
         sitesEnabled |-> IF cfg.sitesEnabled = ""
                          THEN Join(np, "sites-enabled") ELSE cfg.sitesEnabled,
         defaultVhosts |-> IF cfg.defaultVhosts = ""
                           THEN DefaultVhosts ELSE cfg.defaultVhosts]

\* refreshConfig(): io is whether the environment lets the write of the default
\* file through (EACCES otherwise); the write fails with ENOENT when the
\* directory of configPath is missing
refreshConfig(f, cfg, io) ==
    LET absent == ~existsSync(f, configPath)
        wrote  == absent /\ io /\ CanWrite(f, HomeNgx, "ngx.yaml")
        f1     == IF wrote THEN writeFileSync(f, HomeNgx, "ngx.yaml", DefaultDoc) ELSE f
    IN  IF absent /\ ~wrote
        THEN [ok |-> FALSE, fs |-> f, config |-> cfg,
              error |-> IF CanWrite(f, HomeNgx, "ngx.yaml") THEN "EACCES" ELSE "ENOENT"]
        ELSE IF ~CanRead(f1, configPath) \/ readFileSync(f1, configPath).kind = "bad"
        THEN [ok |-> FALSE, fs |-> f1, config |-> cfg, error |-> "YAMLParseError"]
        ELSE [ok |-> TRUE, fs |-> f1, error |-> "",
              config |-> Fallbacks(ObjectAssign(cfg, readFileSync(f1, configPath)))]

-----------------------------------------------------------------------------
(* Site files and NginxServer *)

Listen(p) == [d |-> "listen", n |-> p, s |-> <<>>]
ServerName(hosts) == [d |-> "server_name", n |-> 0, s |-> hosts]
RootLine(path) == [d |-> "root", n |-> 0, s |-> <<path>>]
OtherLine(text) == [d |-> text, n |-> 0, s |-> <<>>]

SiteText(lines) == [kind |-> "site", lines |-> lines]

DefaultPort == 80

\* what the user can leave in a site file when editing a record
EditedTexts(name) ==
    { SiteText(<<Listen(DefaultPort), Listen(8080), ServerName(<<name \o ".test">>)>>) }

RECURSIVE JoinTokens(_, _)
\* Array.prototype.join on words
JoinTokens(tokens, sep) ==
    IF tokens = <<>> THEN ""
    ELSE IF Len(tokens) = 1 THEN tokens[1]
    ELSE tokens[1] \o sep \o JoinTokens(Tail(tokens), sep)

\* the word ends with the keyword: the patterns are not anchored on the left
EndsWith(tok, kw) ==
    Len(tok) >= Len(kw) /\ SubSeq(tok, Len(tok) - Len(kw) + 1, Len(tok)) = kw

\* where /kw\s+(.+);/ matches in a line: at the directive (0) or at the i-th of
\* its words, when text follows on the line
MatchesIn(line, kw) ==
    {i \in 0..(Len(line.s) - 1) : EndsWith(IF i = 0 THEN line.d ELSE line.s[i], kw)}

Where(lines, kw) == {i \in 1..Len(lines) : MatchesIn(lines[i], kw) # {}}
Min(S) == CHOOSE i \in S : \A j \in S : i <= j

\* the capture group of the first match of /kw\s+(.+);/: the words that follow
\* the keyword on its line
Capture(lines, kw) ==
    LET line == lines[Min(Where(lines, kw))]
    IN  SubSeq(line.s, Min(MatchesIn(line, kw)) + 1, Len(line.s))

\* (content.match(/server_name\s+(.+);/)?.slice(1)[0] || "").split(" ")
ParseHosts(lines) ==
    IF Where(lines, "server_name") = {} THEN <<"">>
    ELSE Capture(lines, "server_name")

RECURSIVE ParsePorts(_)
\* Array.from(content.matchAll(/\s*listen\s+(\d+)/g)).map(m => +m[1])
ParsePorts(lines) ==
    IF lines = <<>> THEN <<>>
    ELSE (IF Head(lines).d = "listen" THEN <<Head(lines).n>> ELSE <<>>)
         \o ParsePorts(Tail(lines))

\* content.match(/root\s+(.+);/)?.slice(1)[0] || ""
ParseRoot(lines) ==
    IF Where(lines, "root") = {} THEN ""
    ELSE JoinTokens(Capture(lines, "root"), " ")

\* NginxServer.reload(), when the site file can be read
reload(f, cfg, name) ==
    LET content == readFileSync(f, Join(cfg.sitesAvailable, name))
    IN  [name |-> name,
         hosts |-> ParseHosts(content.lines),
         port |-> ParsePorts(content.lines),
         root |-> ParseRoot(content.lines),
         enabled |-> existsSync(f, Join(cfg.sitesEnabled, name))]

CanReload(f, cfg, name) ==
    /\ CanRead(f, Join(cfg.sitesAvailable, name))
    /\ readFileSync(f, Join(cfg.sitesAvailable, name)).kind = "site"

\* enable() setting the flag before the link is made
enable_flagFirst(f, cfg, s, io) ==
    IF s.enabled THEN [ok |-> TRUE, fs |-> f, server |-> s]
    ELSE IF io /\ CanSymlink(f, cfg.sitesEnabled, s.name)
    THEN [ok |-> TRUE,
          fs |-> symlinkSync(f, Join(cfg.sitesAvailable, s.name), cfg.sitesEnabled, s.name),
          server |-> [s EXCEPT !.enabled = TRUE]]
    ELSE [ok |-> FALSE, fs |-> f, server |-> [s EXCEPT !.enabled = TRUE]]

\* NginxServer.enable(): io is whether the file system lets the link through
enable(f, cfg, s, io) ==
    IF s.enabled THEN [ok |-> TRUE, fs |-> f, server |-> s]
    ELSE IF io /\ CanSymlink(f, cfg.sitesEnabled, s.name)
    THEN [ok |-> TRUE,
          fs |-> symlinkSync(f, Join(cfg.sitesAvailable, s.name), cfg.sitesEnabled, s.name),
          server |-> [s EXCEPT !.enabled = TRUE]]
    ELSE [ok |-> FALSE, fs |-> f, server |-> s]

\* disable() clearing the flag and leaving the link
disable_keepsLink(f, cfg, s, io) ==
    [ok |-> TRUE, fs |-> f, server |-> [s EXCEPT !.enabled = FALSE]]

\* disable() removing the site file instead of the link
disable_removesSite(f, cfg, s, io) ==
    IF ~s.enabled THEN [ok |-> TRUE, fs |-> f, server |-> s]
    ELSE IF io /\ CanRm(f, Join(cfg.sitesAvailable, s.name))
    THEN [ok |-> TRUE, fs |-> rmSync(f, Join(cfg.sitesAvailable, s.name)),
          server |-> [s EXCEPT !.enabled = FALSE]]
    ELSE [ok |-> FALSE, fs |-> f, server |-> s]

\* NginxServer.disable()
disable(f, cfg, s, io) ==
    IF ~s.enabled THEN [ok |-> TRUE, fs |-> f, server |-> s]
    ELSE IF io /\ CanRm(f, Join(cfg.sitesEnabled, s.name))
    THEN [ok |-> TRUE, fs |-> rmSync(f, Join(cfg.sitesEnabled, s.name)),
          server |-> [s EXCEPT !.enabled = FALSE]]
    ELSE [ok |-> FALSE, fs |-> f, server |-> s]

\* NginxServer.toggle()
toggle(f, cfg, s, io) ==
    IF s.enabled THEN disable(f, cfg, s, io) ELSE enable(f, cfg, s, io)

Perms(S) ==
    {p \in [1..Cardinality(S) -> S] :
        \A i, j \in 1..Cardinality(S) : i # j => p[i] # p[j]}

\* loadNginxServers(): files is what readdirSync returned, in its order; the
\* registry is emptied first, so a failure leaves it empty
loadNginxServers(f, cfg, files) ==
    IF /\ IsDir(f, cfg.sitesAvailable)
       /\ \A i \in 1..Len(files) : CanReload(f, cfg, files[i])
    THEN [ok |-> TRUE, servers |-> [i \in 1..Len(files) |-> reload(f, cfg, files[i])]]
    ELSE [ok |-> FALSE, servers |-> <<>>]

\* the orders readdirSync can list a directory in
readdirSync(f, dir) == IF IsDir(f, dir) THEN Perms(EntryNames(f, dir)) ELSE {<<>>}

-----------------------------------------------------------------------------
(* Array.prototype.sort as V8 runs it on fewer than 64 elements: the first    *)
(* run is counted (and reversed when strictly descending), the rest is        *)
(* inserted by binary insertion.  c[x, y] is comparefn(x, y).                 *)

RunContinues(c, a, desc, i) ==
    IF desc THEN c[a[i], a[i - 1]] < 0 ELSE c[a[i], a[i - 1]] >= 0

Reverse(a) == [i \in 1..Len(a) |-> a[Len(a) + 1 - i]]

RunLength(c, a, desc) ==
    CHOOSE r \in 2..Len(a) :
        /\ \A i \in 3..r : RunContinues(c, a, desc, i)
        /\ r = Len(a) \/ ~RunContinues(c, a, desc, r + 1)

RECURSIVE BinarySearch(_, _, _, _, _)
BinarySearch(c, a, pivot, left, right) ==
    IF left >= right THEN left
    ELSE LET mid == left + ((right - left) \div 2)
         IN  IF c[pivot, a[mid]] < 0
             THEN BinarySearch(c, a, pivot, left, mid)
             ELSE BinarySearch(c, a, pivot, mid + 1, right)

RECURSIVE BinaryInsertionSort(_, _, _)
BinaryInsertionSort(c, a, start) ==
    IF start > Len(a) THEN a
    ELSE LET pos == BinarySearch(c, a, a[start], 1, start)
             a1  == SubSeq(a, 1, pos - 1) \o <<a[start]>>
                    \o SubSeq(a, pos, start - 1) \o SubSeq(a, start + 1, Len(a))
         IN  BinaryInsertionSort(c, a1, start + 1)

ArraySort(c, a) ==
    IF Len(a) < 2 THEN a
    ELSE LET desc == c[a[2], a[1]] < 0
             r    == RunLength(c, a, desc)
             a1   == IF desc THEN Reverse(SubSeq(a, 1, r)) \o SubSeq(a, r + 1, Len(a))
                     ELSE a
         IN  BinaryInsertionSort(c, a1, r + 1)

Elems(a) == {a[i] : i \in 1..Len(a)}

\* (a, b) => a.name.localeCompare(b.name)
ByName(a) == [x \in Elems(a), y \in Elems(a) |-> localeCompare(x.name, y.name)]

\* (a, b) => a.enabled ? -1 : 1
ByEnabled(a) == [x \in Elems(a), y \in Elems(a) |-> IF x.enabled THEN -1 ELSE 1]

\* the two sorts after a creation
SortServers(a) ==
    LET byName == ArraySort(ByName(a), a) IN ArraySort(ByEnabled(byName), byName)

-----------------------------------------------------------------------------
(* New-site texts *)

NoData == [kind |-> "none"]

\* lastFailedNewSiteContent = null
NoDraft == NoData

Draft(name, host, port, root, index, php, proxyUrl) ==
    [kind |-> "map", name |-> name, host |-> host, port |-> port, root |-> root,
     index |-> index, php |-> php, proxyUrl |-> proxyUrl]

\* a text YAML.parse throws on, and a text it parses to null (empty, comments only)
BadDraft == [kind |-> "bad"]
NullDraft == [kind |-> "null"]

\* a root template: literal segments and the placeholders {name}, {host}
RootTemplate(base) == <<base, "/", "{name}">>

\* the default template of the New Site editor
Template(cfg) == Draft("", <<>>, DefaultPort, RootTemplate(cfg.defaultVhosts), "", "", "")

Filled(name) ==
    Draft(name, <<name \o ".test">>, DefaultPort, RootTemplate(DefaultVhosts), "", "", "")

\* the texts the user can leave in the New Site editor
Submissions ==
    {BadDraft, NullDraft}
    \cup {Filled(n) : n \in Names}
    \cup { [Filled(AllNames[1]) EXCEPT !.name = ""],
           [Filled(AllNames[1]) EXCEPT !.host = <<>>],
           [Filled(AllNames[1]) EXCEPT !.port = 0],
           [Filled(AllNames[1]) EXCEPT !.root = <<>>] }

\* the host values of a request: one name, two names, and a first name that
\* ends in a directive keyword
HostValues(name) ==
    { <<name \o ".test">>,
      <<name \o ".test", "www." \o name \o ".test">>,
      <<"webroot", name \o ".test">> }

\* valid requests for one site: every host value, both root templates, the php
\* and proxyUrl blocks present or absent
TextSubmissions ==
    { Draft(AllNames[1], h, DefaultPort, r, "", php, proxyUrl) :
        h \in HostValues(AllNames[1]),
        r \in {RootTemplate(DefaultVhosts), <<DefaultVhosts, "/", "{host}">>},
        php \in {"", "php8.2"},
        proxyUrl \in {"", "http://localhost:3000"} }

RECURSIVE ResolveRoot(_, _, _)
\* root.replace(/\{name\}/g, name).replace(/\{host\}/g, host).replace(/\s/g, "_"):
\* the only white space is between the host names
ResolveRoot(root, name, host) ==
    IF root = <<>> THEN ""
    ELSE (IF Head(root) = "{name}" THEN name
          ELSE IF Head(root) = "{host}" THEN JoinTokens(host, "_")
          ELSE Head(root))
         \o ResolveRoot(Tail(root), name, host)

\* data.index?.trim() || (data.php ? "index.php" : "index.html")
ResolveIndex(data) ==
    IF data.index # "" THEN data.index
    ELSE IF data.php # "" THEN "index.php" ELSE "index.html"

\* the scaffold page
Scaffold(data, index) ==
    [kind |-> "html", title |-> data.name,
     phpinfo |-> (data.php # "" /\ index = "index.php")]

\* the site configuration text
GeneratedText(data, root, index) ==
    SiteText(<<Listen(data.port), ServerName(data.host), RootLine(root),
               OtherLine("index " \o index), OtherLine("location /")>>
             \o (IF data.proxyUrl # "" THEN <<OtherLine("proxy_pass " \o data.proxyUrl)>>
                 ELSE <<>>)
             \o (IF data.php # "" THEN <<OtherLine("fastcgi_pass " \o data.php)>>
                 ELSE <<>>))

\* the resolved root used as it is, whether or not it exists
CollisionRoot_keeps(f, resolved, name) == resolved

\* if (existsSync(data.root)) data.root = `${data.root}/${data.name}`
CollisionRoot(f, resolved, name) ==
    IF existsSync(f, resolved) THEN Join(resolved, name) ELSE resolved

\* the check of the required fields without root
MissingRequired_noRoot(data) ==
    data.name = "" \/ data.host = <<>> \/ data.port = 0

\* !data.name || !data.host || !data.port || !data.root
MissingRequired(data) ==
    data.name = "" \/ data.host = <<>> \/ data.port = 0 \/ data.root = <<>>

\* the duplicate-name check left out
SiteExists_never(f, cfg, data) == FALSE

\* existsSync(`${config.sitesAvailable}/${data.name}`)
SiteExists(f, cfg, data) == existsSync(f, Join(cfg.sitesAvailable, data.name))

Failed(error, f, servers) ==
    [ok |-> FALSE, error |-> error, fs |-> f, servers |-> servers]

\* the creation that removes its scaffold when the write of the site file fails
createSite_rollsBack(f, cfg, servers, data, fail) ==
    IF data.kind = "bad" THEN Failed("ParseError", f, servers)
    ELSE IF data.kind = "null" THEN Failed("TypeError", f, servers)
    ELSE IF MissingRequired(data) THEN Failed("ValidationError", f, servers)
    ELSE IF SiteExists(f, cfg, data)
    THEN Failed("AlreadyExistsError", f, servers)
    ELSE
    LET resolved == ResolveRoot(data.root, data.name, data.host)
        root  == CollisionRoot(f, resolved, data.name)
        index == ResolveIndex(data)
        f1 == mkdirSync(f, root)
        f2 == writeFileSync(f1, root, index, Scaffold(data, index))
        f3 == writeFileSync(f2, cfg.sitesAvailable, data.name,
                            GeneratedText(data, root, index))
    IN  IF fail = "mkdir" \/ (root \in DOMAIN f /\ ~IsDir(f, root))
        THEN Failed("WriteError", f, servers)
        ELSE IF ~CanWrite(f1, root, index)
        THEN Failed("WriteError", f1, servers)
        ELSE IF fail = "config" \/ ~CanWrite(f2, cfg.sitesAvailable, data.name)
        THEN Failed("SiteWriteError", f, servers)
        ELSE IF ~CanReload(f3, cfg, data.name)
        THEN Failed("ReadError", f3, servers)
        ELSE [ok |-> TRUE, error |-> "", fs |-> f3,
              servers |-> SortServers(Append(servers, reload(f3, cfg, data.name)))]

\* the try block of the New Site handler.  fail names the file-system call the
\* environment refuses, if any: the mkdir of the document root or the write of
\* the site configuration file.
createSite(f, cfg, servers, data, fail) ==
    IF data.kind = "bad" THEN Failed("ParseError", f, servers)
    ELSE IF data.kind = "null" THEN Failed("TypeError", f, servers)
    ELSE IF MissingRequired(data) THEN Failed("ValidationError", f, servers)
    ELSE IF SiteExists(f, cfg, data)
    THEN Failed("AlreadyExistsError", f, servers)
    ELSE
    LET resolved == ResolveRoot(data.root, data.name, data.host)
        root  == CollisionRoot(f, resolved, data.name)
        index == ResolveIndex(data)
        f1 == mkdirSync(f, root)
        f2 == writeFileSync(f1, root, index, Scaffold(data, index))
        f3 == writeFileSync(f2, cfg.sitesAvailable, data.name,
                            GeneratedText(data, root, index))
    IN  IF fail = "mkdir" \/ (root \in DOMAIN f /\ ~IsDir(f, root))
        THEN Failed("WriteError", f, servers)
        ELSE IF ~CanWrite(f1, root, index)
        THEN Failed("WriteError", f1, servers)
        ELSE IF fail = "config" \/ ~CanWrite(f2, cfg.sitesAvailable, data.name)
        THEN Failed("SiteWriteError", f2, servers)
        ELSE IF ~CanReload(f3, cfg, data.name)
        THEN Failed("ReadError", f3, servers)
        ELSE [ok |-> TRUE, error |-> "", fs |-> f3,
              servers |-> SortServers(Append(servers, reload(f3, cfg, data.name)))]

-----------------------------------------------------------------------------
(* The state machine *)

NoEditor == [flow |-> "none", initialContent |-> NoData, name |-> ""]

Outcome(op, outcome, error, escaped, name, data) ==
    [op |-> op, outcome |-> outcome, error |-> error, escaped |-> escaped,
     name |-> name, data |-> data]

NoOutcome == Outcome("none", "done", "", FALSE, "", NoData)

AvailOf(np) == Join(np, "sites-available")
EnabledOf(np) == Join(np, "sites-enabled")

BaseDirs ==
    { AvailOf(DefaultNginxPath), EnabledOf(DefaultNginxPath),
      AvailOf(OptNginxPath), EnabledOf(OptNginxPath),
      SrvAvailable, SrvEnabled, DefaultVhosts, SrvVhosts }

\* the site file, document root and scaffold a creation of `name` leaves
SiteFiles(avail, name) ==
    LET root == Join(DefaultVhosts, name)
    IN  [p \in {Join(avail, name), root, Join(root, "index.html")} |->
            IF p = root THEN Dir
            ELSE IF p = Join(avail, name)
            THEN File(GeneratedText(Filled(name), root, "index.html"))
            ELSE File(Scaffold(Filled(name), "index.html"))]

Merge(f, g) == [p \in DOMAIN f \cup DOMAIN g |-> IF p \in DOMAIN g THEN g[p] ELSE f[p]]

RECURSIVE MergeAll(_, _)
MergeAll(f, gs) ==
    IF gs = {} THEN f
    ELSE LET g == CHOOSE x \in gs : TRUE IN MergeAll(Merge(f, g), gs \ {g})

\* the file system the program starts on: the sites of the default
\* sites-available (created by this tool earlier), the links of the default
\* sites-enabled (a link without its site file dangles), one site in each of
\* the other site directories, and the home directory
InitFs(files, links, home) ==
    LET first == AllNames[1]
        dirs  == [p \in BaseDirs |-> Dir]
        sites == {SiteFiles(AvailOf(DefaultNginxPath), n) : n \in files}
                 \cup {SiteFiles(AvailOf(OptNginxPath), first), SiteFiles(SrvAvailable, first)}
        lnks  == [p \in {Join(EnabledOf(DefaultNginxPath), n) : n \in links} |->
                    Link(Join(AvailOf(DefaultNginxPath),
                              CHOOSE n \in links : p = Join(EnabledOf(DefaultNginxPath), n)))]
        srv   == [p \in {Join(SrvEnabled, first)} |-> Link(Join(SrvAvailable, first))]
        hdir  == IF home.kind = "nohome" THEN <<>> ELSE [p \in {HomeNgx} |-> Dir]
        hcfg  == IF home.kind \in {"nohome", "absent"} THEN <<>>
                 ELSE [p \in {configPath} |-> File(home)]
    IN  MergeAll(dirs, sites \cup {lnks, srv, hdir, hcfg})

NoHome == [kind |-> "nohome"]
NoConfigFile == [kind |-> "absent"]

InitWith(homes) ==
    /\ pc = "start"
    /\ \E files \in SUBSET Names, links \in SUBSET Names, home \in homes :
          fs = InitFs(files, links, home)
    /\ config = NewConfig
    /\ nginxServers = <<>>
    /\ lastFailedNewSiteContent = NoDraft
    /\ editor = NoEditor
    /\ last = NoOutcome

\* the top-level script: the directory of line 16, refreshConfig, loadNginxServers
Startup ==
    /\ pc = "start"
    /\ \E io \in BOOLEAN :
         LET f0 == IF ~existsSync(fs, HomeNgx) THEN mkdirSync(fs, HomeConfigNgx) ELSE fs
             rc == refreshConfig(f0, config, io)
         IN  /\ fs' = rc.fs
             /\ config' = rc.config
             /\ IF ~rc.ok
                THEN /\ pc' = "exited"
                     /\ nginxServers' = nginxServers
                     /\ last' = Outcome("startup", "failed", rc.error, FALSE, "", NoData)
                ELSE \E files \in readdirSync(rc.fs, rc.config.sitesAvailable) :
                       LET ld == loadNginxServers(rc.fs, rc.config, files)
                       IN  /\ nginxServers' = ld.servers
                           /\ pc' = IF ld.ok THEN "render" ELSE "exited"
                           /\ last' = IF ld.ok
                                      THEN Outcome("startup", "done", "", FALSE, "", NoData)
                                      ELSE Outcome("startup", "failed", "DiscoveryError",
                                                   FALSE, "", NoData)
    /\ UNCHANGED <<lastFailedNewSiteContent, editor>>

\* screen.render() at the end of a handler: the program waits for the next event
Render ==
    /\ pc = "render"
    /\ pc' = "idle"
    /\ last' = NoOutcome
    /\ UNCHANGED <<fs, config, nginxServers, lastFailedNewSiteContent, editor>>

\* detailsToggle press handler: no try/catch, so a failure of the link call is an
\* uncaught exception
DetailsTogglePress ==
    /\ pc = "idle"
    /\ \E i \in 1..Len(nginxServers), io \in BOOLEAN :
         LET s == nginxServers[i]
             r == toggle(fs, config, s, io)
         IN  /\ fs' = r.fs
             /\ nginxServers' = [nginxServers EXCEPT ![i] = r.server]
             /\ pc' = IF r.ok THEN "render" ELSE "crashed"
             /\ last' = IF r.ok THEN Outcome("toggle", "done", "", FALSE, s.name, NoData)
                        ELSE Outcome("toggle", "failed",
                                     IF s.enabled THEN "UnlinkError" ELSE "LinkError",
                                     TRUE, s.name, NoData)
    /\ UNCHANGED <<config, lastFailedNewSiteContent, editor>>

\* an editor that leaves the screen taking input while it runs
tempEditor_inputOpen(flow, content, name) ==
    /\ pc' = "idle"
    /\ editor' = [flow |-> flow, initialContent |-> content, name |-> name]

\* tempEditor up to the spawn of the editor: the handler is suspended, and the
\* screen takes no input until the editor exits (screen.exec runs the editor in
\* the foreground of the terminal)
tempEditor(flow, content, name) ==
    /\ pc' = "editing"
    /\ editor' = [flow |-> flow, initialContent |-> content, name |-> name]

\* the editor exits with an error: tempEditor's promise is rejected, and no
\* handler catches it.  Whether the process survives an unhandled rejection
\* depends on the Node.js version.
EditorRejects(op) ==
    /\ pc' \in {"render", "crashed"}
    /\ editor' = NoEditor
    /\ last' = Outcome(op, "failed", "EditorError", TRUE, editor.name, NoData)
    /\ UNCHANGED <<fs, config, nginxServers, lastFailedNewSiteContent>>

\* data === initialContent (config edit), eData.data === data (record edit)
Unchanged(data, initialContent) == data = initialContent

\* eData.data.trim() === initialContent.trim(): a text is modelled up to the
\* white space around it
UnchangedTrimmed(data, initialContent) == data = initialContent

\* the flow that clears the draft when it is left without a change
Cancelled_clearsDraft(op, data) ==
    /\ pc' = "render"
    /\ editor' = NoEditor
    /\ last' = Outcome(op, "cancelled", "", FALSE, editor.name, data)
    /\ lastFailedNewSiteContent' = NoDraft
    /\ UNCHANGED <<fs, config, nginxServers>>

\* the editor flow is left with the text unchanged: a status message, nothing else
Cancelled(op, data) ==
    /\ pc' = "render"
    /\ editor' = NoEditor
    /\ last' = Outcome(op, "cancelled", "", FALSE, editor.name, data)
    /\ UNCHANGED <<fs, config, nginxServers, lastFailedNewSiteContent>>

\* editConfigButton press handler, up to the await
EditConfigPress ==
    /\ pc = "idle"
    /\ \E io \in BOOLEAN :
         IF io /\ CanRead(fs, configPath)
         THEN /\ tempEditor("config", readFileSync(fs, configPath), "")
              /\ last' = last
         ELSE /\ pc' \in {"render", "crashed"}
              /\ editor' = editor
              /\ last' = Outcome("editConfig", "failed", "ReadError", TRUE, "", NoData)
    /\ UNCHANGED <<fs, config, nginxServers, lastFailedNewSiteContent>>

\* the catch block that reports the failure and leaves the new text in the file
EditConfigUndo_noRestore(f, cfg, servers, io, error) ==
    /\ config' = cfg
    /\ nginxServers' = servers
    /\ editor' = NoEditor
    /\ fs' = f
    /\ pc' = "render"
    /\ last' = Outcome("editConfig", "failed", error, FALSE, "", NoData)

\* the catch block of the config edit: the previous text is written back and
\* the error becomes the status message; the in-memory configuration and the
\* registry stay as the try block left them.  A failure of the write-back
\* leaves the handler.
EditConfigUndo(f, cfg, servers, io, error) ==
    /\ config' = cfg
    /\ nginxServers' = servers
    /\ editor' = NoEditor
    /\ IF io /\ CanWrite(f, HomeNgx, "ngx.yaml")
       THEN /\ fs' = writeFileSync(f, HomeNgx, "ngx.yaml", editor.initialContent)
            /\ pc' = "render"
            /\ last' = Outcome("editConfig", "failed", error, FALSE, "", NoData)
       ELSE /\ fs' = f
            /\ pc' \in {"render", "crashed"}
            /\ last' = Outcome("editConfig", "failed", "UndoError", TRUE, "", NoData)

\* the branch of the config edit that writes the new text: ioW, ioL and ioU are
\* whether the environment lets through the write of the new text, the reads of
\* the site files and the write-back
EditConfigSubmit(data, ioW, ioL, ioU) ==
    LET wrote == ioW /\ CanWrite(fs, HomeNgx, "ngx.yaml")
        f1 == IF wrote THEN writeFileSync(fs, HomeNgx, "ngx.yaml", data) ELSE fs
        rc == refreshConfig(f1, config, TRUE)
    IN  IF wrote /\ rc.ok
        THEN \E files \in readdirSync(f1, rc.config.sitesAvailable) :
               LET ld == loadNginxServers(f1, rc.config, files)
               IN  IF ld.ok /\ (ioL \/ files = <<>>)
                   THEN /\ fs' = f1
                        /\ config' = rc.config
                        /\ nginxServers' = ld.servers
                        /\ pc' = "render"
                        /\ editor' = NoEditor
                        /\ last' = Outcome("editConfig", "done", "", FALSE, "", data)
                   ELSE EditConfigUndo(f1, rc.config, <<>>, ioU, "DiscoveryError")
        ELSE EditConfigUndo(f1, config, nginxServers, ioU,
                            IF wrote THEN rc.error ELSE "WriteError")

\* editConfigButton press handler, from the await on: texts is what the user
\* can leave in the editor
EditConfigReturnOf(texts) ==
    /\ pc = "editing"
    /\ editor.flow = "config"
    /\ \/ EditorRejects("editConfig")
       \/ \E data \in texts \cup {editor.initialContent},
             ioW \in BOOLEAN, ioL \in BOOLEAN, ioU \in BOOLEAN :
            IF Unchanged(data, editor.initialContent)
            THEN Cancelled("editConfig", data)
            ELSE /\ EditConfigSubmit(data, ioW, ioL, ioU)
                 /\ UNCHANGED lastFailedNewSiteContent

EditConfigReturn == EditConfigReturnOf(ConfigDocs)

\* the same handler on the configuration texts of the combined specification
EditConfigReturnAll ==
    EditConfigReturnOf({DefaultDoc, Doc(Unset, MissingDir, Unset, Unset), BadYaml})

\* newSiteButton press handler, up to the await
NewSitePress ==
    /\ pc = "idle"
    /\ tempEditor("newSite",
                  IF lastFailedNewSiteContent # NoDraft THEN lastFailedNewSiteContent
                  ELSE Template(config),
                  "")
    /\ UNCHANGED <<fs, config, nginxServers, lastFailedNewSiteContent, last>>

\* the catch block not saving the draft
DraftAfter_discards(ok, data) == NoDraft

\* lastFailedNewSiteContent = null after the try block, = eData.data in the catch
DraftAfter(ok, data) == IF ok THEN NoDraft ELSE data

\* the try/catch of the New Site handler
NewSiteSubmit(data, fail) ==
    LET r == createSite(fs, config, nginxServers, data, fail)
    IN  /\ fs' = r.fs
        /\ nginxServers' = r.servers
        /\ lastFailedNewSiteContent' = DraftAfter(r.ok, data)
        /\ last' = Outcome("newSite", IF r.ok THEN "done" ELSE "failed", r.error, FALSE,
                           IF data.kind = "map" THEN data.name ELSE "", data)
        /\ pc' = "render"
        /\ editor' = NoEditor
        /\ UNCHANGED config

\* newSiteButton press handler, from the await on: texts is what the user can
\* leave in the editor, fails the calls the environment can refuse
NewSiteReturnOf(texts, fails) ==
    /\ pc = "editing"
    /\ editor.flow = "newSite"
    /\ \/ EditorRejects("newSite")
       \/ \E data \in texts \cup {editor.initialContent}, fail \in fails :
            IF UnchangedTrimmed(data, editor.initialContent)
            THEN Cancelled("newSite", data)
            ELSE NewSiteSubmit(data, fail)

NewSiteReturn == NewSiteReturnOf(Submissions, {"none", "mkdir", "config"})

\* the same handler on the requests of the combined specification
NewSiteReturnAll ==
    NewSiteReturnOf({Filled(AllNames[2]), BadDraft}, {"none", "config"})

\* the same handler on the range of site requests
NewSiteReturnText == NewSiteReturnOf(TextSubmissions, {"none"})

\* detailsEdit press handler, up to tempEditor: getContent is outside any try
DetailsEditPress ==
    /\ pc = "idle"
    /\ \E i \in 1..Len(nginxServers), io \in BOOLEAN :
         LET path == Join(config.sitesAvailable, nginxServers[i].name)
         IN  IF io /\ CanRead(fs, path)
             THEN /\ tempEditor("record", readFileSync(fs, path), nginxServers[i].name)
                  /\ last' = last
             ELSE /\ pc' = "crashed"
                  /\ editor' = editor
                  /\ last' = Outcome("editRecord", "failed", "ReadError", TRUE,
                                     nginxServers[i].name, NoData)
    /\ UNCHANGED <<fs, config, nginxServers, lastFailedNewSiteContent>>

\* the record the edit button is bound to
ServerIndex(name) == CHOOSE i \in 1..Len(nginxServers) : nginxServers[i].name = name

\* the record edit taking the record's fields from the submitted text even when
\* the write has failed
DetailsEditSubmit_showsUnsaved(data, fail) ==
    LET wrote == fail # "write" /\ CanWrite(fs, config.sitesAvailable, editor.name)
        f1 == IF wrote THEN writeFileSync(fs, config.sitesAvailable, editor.name, data)
              ELSE fs
        shown == writeFileSync(fs, config.sitesAvailable, editor.name, data)
        ok == wrote /\ CanReload(f1, config, editor.name)
    IN  /\ fs' = f1
        /\ nginxServers' =
             [nginxServers EXCEPT
                ![ServerIndex(editor.name)] = reload(shown, config, editor.name)]
        /\ last' = Outcome("editRecord", IF ok THEN "done" ELSE "failed",
                           IF ok THEN "" ELSE IF wrote THEN "ReadError" ELSE "WriteError",
                           FALSE, editor.name, data)
        /\ pc' = "render"
        /\ editor' = NoEditor
        /\ UNCHANGED <<config, lastFailedNewSiteContent>>

\* the try/catch of the record edit
DetailsEditSubmit(data, fail) ==
    LET wrote == fail # "write" /\ CanWrite(fs, config.sitesAvailable, editor.name)
        f1 == IF wrote THEN writeFileSync(fs, config.sitesAvailable, editor.name, data)
              ELSE fs
        ok == wrote /\ CanReload(f1, config, editor.name)
    IN  /\ fs' = f1
        /\ nginxServers' =
             IF ok THEN [nginxServers EXCEPT
                           ![ServerIndex(editor.name)] = reload(f1, config, editor.name)]
             ELSE nginxServers
        /\ last' = Outcome("editRecord", IF ok THEN "done" ELSE "failed",
                           IF ok THEN "" ELSE IF wrote THEN "ReadError" ELSE "WriteError",
                           FALSE, editor.name, data)
        /\ pc' = "render"
        /\ editor' = NoEditor
        /\ UNCHANGED <<config, lastFailedNewSiteContent>>

\* detailsEdit press handler, the then-callback
DetailsEditReturn ==
    /\ pc = "editing"
    /\ editor.flow = "record"
    /\ \/ EditorRejects("editRecord")
       \/ \E data \in EditedTexts(editor.name) \cup {editor.initialContent},
             fail \in {"none", "write"} :
            IF Unchanged(data, editor.initialContent)
            THEN Cancelled("editRecord", data)
            ELSE DetailsEditSubmit(data, fail)

\* The site lifecycle: the configuration is the default one
Init == InitWith({NoConfigFile, DefaultDoc})

Next ==
    \/ Startup
    \/ Render
    \/ DetailsTogglePress
    \/ NewSitePress
    \/ NewSiteReturn
    \/ DetailsEditPress
    \/ DetailsEditReturn

Spec == Init /\ [][Next]_vars

\* The configuration store: every home directory, config edits and toggles
InitConfig == InitWith(ConfigDocs \cup {NoHome, NoConfigFile})

NextConfig ==
    \/ Startup
    \/ Render
    \/ DetailsTogglePress
    \/ EditConfigPress
    \/ EditConfigReturn

SpecConfig == InitConfig /\ [][NextConfig]_vars

\* Every handler: one home directory with the default configuration file
InitAll ==
    /\ pc = "start"
    /\ \E links \in SUBSET Names : fs = InitFs({AllNames[1]}, links, DefaultDoc)
    /\ config = NewConfig
    /\ nginxServers = <<>>
    /\ lastFailedNewSiteContent = NoDraft
    /\ editor = NoEditor
    /\ last = NoOutcome

NextAll ==
    \/ Startup
    \/ Render
    \/ DetailsTogglePress
    \/ EditConfigPress
    \/ EditConfigReturnAll
    \/ NewSitePress
    \/ NewSiteReturnAll
    \/ DetailsEditPress
    \/ DetailsEditReturn

SpecAll == InitAll /\ [][NextAll]_vars

\* a site file written by hand: no server_name directive
HandText == SiteText(<<Listen(DefaultPort), Listen(443), RootLine(SrvVhosts)>>)

\* Site texts: hand-written site files next to the generated ones, and the
\* range of requests for a new site
InitText ==
    /\ pc = "start"
    /\ \E files \in SUBSET Names, links \in SUBSET Names :
         \E hand \in SUBSET (Names \ files) :
            fs = Merge(InitFs(files, links, DefaultDoc),
                       [p \in {Join(AvailOf(DefaultNginxPath), n) : n \in hand} |->
                           File(HandText)])
    /\ config = NewConfig
    /\ nginxServers = <<>>
    /\ lastFailedNewSiteContent = NoDraft
    /\ editor = NoEditor
    /\ last = NoOutcome

NextText ==
    \/ Startup
    \/ Render
    \/ NewSitePress
    \/ NewSiteReturnText

SpecText == InitText /\ [][NextText]_vars

-----------------------------------------------------------------------------
(* Claims *)

Servers == {nginxServers[i] : i \in 1..Len(nginxServers)}

\* a handler has just completed with this outcome
Completed(op, outcome) == last.op = op /\ last.outcome = outcome

\* enabled records first, names non-decreasing within each run of equal flags
Ordered(a) ==
    /\ \A i, j \in 1..Len(a) : (i < j /\ ~a[i].enabled) => ~a[j].enabled
    /\ \A i \in 1..(Len(a) - 1) :
          a[i].enabled = a[i + 1].enabled => Rank(a[i].name) <= Rank(a[i + 1].name)

\* C1: after a creation or a toggle the registry is enabled-first and sorted by
\* name within the enabled and within the disabled records.
C1_OrderedAfterCreateOrToggle ==
    (pc = "render" /\ (Completed("newSite", "done") \/ Completed("toggle", "done")))
        => Ordered(nginxServers)

\* C2: in every state after startup, also after a failed operation, a record is
\* enabled exactly when sitesEnabled holds an entry of its name.
C2_EnabledIffLinked ==
    pc # "start" =>
        \A s \in Servers : s.enabled <=> Join(config.sitesEnabled, s.name) \in DOMAIN fs

C2_Witness ==
    /\ pc = "render"
    /\ Completed("toggle", "done")
    /\ \E s \in Servers : s.name = last.name /\ s.enabled
    /\ \E s \in Servers : ~s.enabled

\* C3: for a disabled record, enable() and then disable() leave the record
\* disabled, no link of its name in sitesEnabled, and the whole file system
\* (every site file, every other link) as it was.
C3_EnableThenDisableRestores ==
    pc \in {"idle", "render"} =>
        \A s \in Servers :
            (~s.enabled /\ enable(fs, config, s, TRUE).ok) =>
                LET e == enable(fs, config, s, TRUE)
                    d == disable(e.fs, config, e.server, TRUE)
                IN  /\ e.server.enabled
                    /\ Join(config.sitesEnabled, s.name) \in DOMAIN e.fs
                    /\ d.ok
                    /\ d.server = s
                    /\ Join(config.sitesEnabled, s.name) \notin DOMAIN d.fs
                    /\ d.fs = fs

C3_Witness ==
    /\ pc = "render"
    /\ Completed("toggle", "done")
    /\ \E s \in Servers :
          /\ s.name = last.name
          /\ ~s.enabled
          /\ enable(fs, config, s, TRUE).ok
          /\ enable(fs, config, s, TRUE).fs # fs

\* the required fields of a submitted text, as the claims state them
FieldMissing(d) == d.name = "" \/ d.host = <<>> \/ d.port = 0 \/ d.root = <<>>

\* the New Site handler runs its try block on the submitted text last'.data
Submitted ==
    /\ pc = "editing"
    /\ editor.flow = "newSite"
    /\ last'.op = "newSite"
    /\ last'.outcome \in {"done", "failed"}
    /\ last'.error # "EditorError"

\* C4: creating a site whose name is already a file of sitesAvailable fails with
\* the already-exists error, and neither the file system nor the registry changes.
C4_DuplicateNameWritesNothing ==
    [][(/\ Submitted
        /\ last'.data.kind = "map"
        /\ ~FieldMissing(last'.data)
        /\ existsSync(fs, Join(config.sitesAvailable, last'.data.name)))
       => (/\ last'.outcome = "failed"
           /\ last'.error = "AlreadyExistsError"
           /\ fs' = fs
           /\ nginxServers' = nginxServers)]_vars

C4_Witness ==
    /\ pc = "render"
    /\ Completed("newSite", "failed")
    /\ last.error = "AlreadyExistsError"
    /\ existsSync(fs, Join(config.sitesAvailable, last.name))

\* C5: a creation request with name, host, port or root missing fails with the
\* validation error, and neither the file system nor the registry changes.
C5_MissingFieldWritesNothing ==
    [][(/\ Submitted
        /\ last'.data.kind = "map"
        /\ FieldMissing(last'.data))
       => (/\ last'.outcome = "failed"
           /\ last'.error = "ValidationError"
           /\ fs' = fs
           /\ nginxServers' = nginxServers)]_vars

C5_Witness ==
    /\ pc = "render"
    /\ Completed("newSite", "failed")
    /\ last.error = "ValidationError"
    /\ last.data.root = <<>>

\* C6: a failed submission saves the submitted text as the draft; New Site opens
\* the editor on the draft, or on the default template when there is none; the
\* draft changes only when a submission completes, and it is cleared only, and
\* always, by a successful creation.
C6_DraftKeptUntilSuccess ==
    [][/\ (Submitted /\ last'.outcome = "failed")
            => lastFailedNewSiteContent' = last'.data
       /\ (Submitted /\ last'.outcome = "done")
            => lastFailedNewSiteContent' = NoDraft
       /\ (pc = "idle" /\ pc' = "editing" /\ editor'.flow = "newSite")
            => editor'.initialContent =
                  (IF lastFailedNewSiteContent # NoDraft THEN lastFailedNewSiteContent
                   ELSE Template(config))
       /\ lastFailedNewSiteContent' # lastFailedNewSiteContent => Submitted
       /\ (lastFailedNewSiteContent # NoDraft /\ lastFailedNewSiteContent' = NoDraft)
            => last'.outcome = "done"]_vars

C6_Witness ==
    /\ pc = "editing"
    /\ editor.flow = "newSite"
    /\ lastFailedNewSiteContent # NoDraft
    /\ editor.initialContent = lastFailedNewSiteContent

\* C7: a toggle whose link call fails leaves the file system and the registry
\* (every record's flag, the order of the records) as they were.
C7_FailedToggleChangesNothing ==
    [][(pc = "idle" /\ last'.op = "toggle" /\ last'.outcome = "failed")
       => (fs' = fs /\ nginxServers' = nginxServers /\ config' = config)]_vars

C7_Witness ==
    /\ Completed("toggle", "failed")
    /\ last.error = "LinkError"
    /\ \E s \in Servers : s.name = last.name /\ ~s.enabled

\* C8: no failure after startup escapes its handler: the process keeps running
\* and the failure is a status message.
C8_NoFailureEscapes == pc # "crashed" /\ ~last.escaped

\* what loading a configuration text into a fresh Config yields
FreshLoad(doc) == Fallbacks(ObjectAssign(NewConfig, doc))

\* C9: after a successful load, at startup or after a config edit, every field
\* is non-empty and is the file's value or, when the file leaves it unset, its
\* fallback.
C9_LoadedConfigIsFileOrFallback ==
    (pc = "render" /\ (Completed("startup", "done") \/ Completed("editConfig", "done")))
        => /\ \A k \in DOMAIN config : config[k] # ""
           /\ config = FreshLoad(readFileSync(fs, configPath))

\* C10: started without a configuration file (and the write not refused), the
\* program writes the default configuration to configPath and loads the four
\* defaults; the only directory it makes is the one that holds configPath.
C10_AbsentConfigIsCreated ==
    [][(pc = "start" /\ ~existsSync(fs, configPath) /\ last'.error # "EACCES")
       => (/\ last'.outcome = "done"
           /\ CanRead(fs', configPath)
           /\ readFileSync(fs', configPath) = DefaultDoc
           /\ config' = FreshLoad(DefaultDoc)
           /\ \A p \in DOMAIN fs' \ DOMAIN fs : p \in {HomeNgx, configPath})]_vars

\* the words of a request's host value as one string
HostString(d) == JoinTokens(d.host, " ")

\* the root a request resolves to on the file system f
ExpectedRoot(f, d) ==
    LET originalResolved == ResolveRoot(d.root, d.name, d.host)
    IN  IF existsSync(f, originalResolved) THEN originalResolved \o "/" \o d.name
        ELSE originalResolved

\* C11: parsing the site file a creation has written gives back the request:
\* its host names (the one-element [host] for a single name), its port alone,
\* and the root the request resolved to, with or without the php and proxyUrl
\* blocks.
C11_ParseOfGeneratedIsRequest ==
    [][(Submitted /\ last'.outcome = "done")
       => LET d == last'.data
              text == readFileSync(fs', Join(config.sitesAvailable, d.name))
          IN  /\ JoinTokens(ParseHosts(text.lines), " ") = HostString(d)
              /\ ParsePorts(text.lines) = <<d.port>>
              /\ ParseRoot(text.lines) = ExpectedRoot(fs, d)]_vars

\* C12: a record whose site file has no server_name directive has no hosts.
C12_NoServerNameNoHosts ==
    \A s \in Servers :
        LET path == Join(config.sitesAvailable, s.name)
        IN  (/\ pc \in {"idle", "render"}
             /\ CanRead(fs, path)
             /\ \A i \in 1..Len(readFileSync(fs, path).lines) :
                   readFileSync(fs, path).lines[i].d # "server_name")
            => s.hosts = <<>>

\* the lines of the site file of `name` on the file system f
LinesOf(f, name) == readFileSync(f, Join(config.sitesAvailable, name)).lines

\* C13: a creation makes its scaffold under, and writes into the site file, the
\* resolved root when that path did not exist, and the resolved root followed
\* by "/" and the site name when it did.
C13_RootCollisionAppendsName ==
    [][(Submitted /\ last'.outcome = "done")
       => LET d == last'.data
              originalResolved == ResolveRoot(d.root, d.name, d.host)
              root == IF originalResolved \in DOMAIN fs
                      THEN originalResolved \o "/" \o d.name
                      ELSE originalResolved
          IN  /\ IsDir(fs', root)
              /\ CanRead(fs', Join(root, ResolveIndex(d)))
              /\ \E i \in 1..Len(LinesOf(fs', d.name)) :
                    LinesOf(fs', d.name)[i] = RootLine(root)
              /\ \A i \in 1..Len(LinesOf(fs', d.name)) :
                    LinesOf(fs', d.name)[i].d = "root"
                        => LinesOf(fs', d.name)[i] = RootLine(root)]_vars

C13_Witness ==
    /\ pc = "render"
    /\ Completed("newSite", "done")
    /\ LET originalResolved ==
               ResolveRoot(last.data.root, last.data.name, last.data.host)
       IN  /\ \E i \in 1..Len(LinesOf(fs, last.name)) :
                 LinesOf(fs, last.name)[i] =
                     RootLine(originalResolved \o "/" \o last.name)
           /\ CanRead(fs, Join(Join(originalResolved, last.name), "index.html"))

\* the config edit handler resumes from the editor and ends with this error
ConfigEditFails(errors) ==
    /\ pc = "editing"
    /\ editor.flow = "config"
    /\ last'.op = "editConfig"
    /\ last'.outcome = "failed"
    /\ last'.error \in errors

\* C14: a config edit that fails because the new text does not parse or the
\* site discovery fails under it leaves the configuration file with its
\* pre-edit text (the rest of the file system untouched) and reports the failure
\* as a status message; the write-back itself is not refused.
C14_FailedConfigEditRestoresFile ==
    [][ConfigEditFails({"YAMLParseError", "DiscoveryError"})
       => (/\ CanRead(fs', configPath)
           /\ readFileSync(fs', configPath) = editor.initialContent
           /\ readFileSync(fs', configPath) = readFileSync(fs, configPath)
           /\ fs' = fs
           /\ ~last'.escaped
           /\ pc' = "render")]_vars

C14_Witness ==
    /\ pc = "render"
    /\ Completed("editConfig", "failed")
    /\ last.error = "DiscoveryError"
    /\ readFileSync(fs, configPath) = DefaultDoc

\* what refreshConfig makes of the configuration file now on disk
Reloaded(f, cfg) == Fallbacks(ObjectAssign(cfg, readFileSync(f, configPath)))

\* C15: when a config edit completes, done or rolled back, the in-memory
\* configuration is what loading the file on disk gives, and a rolled-back edit
\* leaves it at its pre-edit values.
C15_ConfigMatchesFileAfterEdit ==
    [][/\ (pc = "editing" /\ editor.flow = "config" /\ last'.op = "editConfig"
           /\ last'.outcome = "done")
          => config' = Reloaded(fs', config')
       /\ ConfigEditFails({"YAMLParseError", "DiscoveryError", "WriteError"})
          => (config' = Reloaded(fs', config') /\ config' = config)]_vars

\* the names of the records of the registry
RecordNames == {nginxServers[i].name : i \in 1..Len(nginxServers)}

\* C16: whenever the program waits for input, also after a failed operation,
\* no two records share a name and the record names are the names of the
\* entries of the configured sitesAvailable directory.
C16_RegistryIsDirectory ==
    pc \in {"idle", "render"}
        => /\ \A i, j \in 1..Len(nginxServers) :
                  nginxServers[i].name = nginxServers[j].name => i = j
           /\ RecordNames = EntryNames(fs, config.sitesAvailable)

\* C17: when the write of an edited site file fails, the record keeps its
\* hosts, ports, root and enabled flag (the registry and the file system are
\* unchanged) and the error is the status message.
C17_FailedRecordWriteKeepsRecord ==
    [][(/\ pc = "editing"
        /\ editor.flow = "record"
        /\ last'.op = "editRecord"
        /\ last'.error = "WriteError")
       => (/\ nginxServers' = nginxServers
           /\ fs' = fs
           /\ last'.outcome = "failed"
           /\ ~last'.escaped
           /\ pc' = "render")]_vars

C17_Witness ==
    /\ pc = "render"
    /\ Completed("editRecord", "failed")
    /\ last.error = "WriteError"
    /\ \E s \in Servers :
          /\ s.name = last.name
          /\ s.port = <<DefaultPort>>
          /\ s = reload(fs, config, s.name)

\* C18: in each editor flow, a returned text identical to the text the editor
\* was opened on cancels the flow: the file system, the configuration, the
\* registry with its records and the saved draft are unchanged.
C18_UnchangedTextCancels ==
    [][(/\ pc = "editing"
        /\ last'.op \in {"editConfig", "newSite", "editRecord"}
        /\ last'.data = editor.initialContent)
       => (/\ last'.outcome = "cancelled"
           /\ fs' = fs
           /\ config' = config
           /\ nginxServers' = nginxServers
           /\ lastFailedNewSiteContent' = lastFailedNewSiteContent
           /\ pc' = "render")]_vars

C18_Witness ==
    /\ pc = "render"
    /\ Completed("newSite", "cancelled")
    /\ lastFailedNewSiteContent # NoDraft
    /\ last.data = lastFailedNewSiteContent

\* C19: when the write of the site file fails after the scaffold was written,
\* the scaffold directory and file stay on disk and nothing is removed, no site
\* file appears, the registry (its records and order) is unchanged, and the
\* failure is a status message with the submitted text kept as the draft.
C19_ScaffoldStaysWhenSiteWriteFails ==
    [][(Submitted /\ last'.error = "SiteWriteError")
       => LET d == last'.data
              root == ExpectedRoot(fs, d)
              page == Join(root, ResolveIndex(d))
          IN  /\ IsDir(fs', root)
              /\ CanRead(fs', page)
              /\ readFileSync(fs', page) = Scaffold(d, ResolveIndex(d))
              /\ \A p \in DOMAIN fs : p \in DOMAIN fs' /\ (p # page => fs'[p] = fs[p])
              /\ DOMAIN fs' \subseteq DOMAIN fs \cup {root, page}
              /\ Join(config.sitesAvailable, d.name) \notin DOMAIN fs'
              /\ nginxServers' = nginxServers
              /\ last'.outcome = "failed"
              /\ ~last'.escaped
              /\ pc' = "render"
              /\ lastFailedNewSiteContent' = d]_vars

C19_Witness ==
    /\ pc = "render"
    /\ Completed("newSite", "failed")
    /\ last.error = "SiteWriteError"
    /\ lastFailedNewSiteContent = last.data
    /\ Join(config.sitesAvailable, last.name) \notin DOMAIN fs
    /\ \E p \in DOMAIN fs :
          /\ fs[p] = File(Scaffold(last.data, "index.html"))
          /\ \A s \in Servers : s.root \o "/index.html" # p

\* the operation of the handler an editor flow belongs to
OpOf(flow) ==
    IF flow = "config" THEN "editConfig"
    ELSE IF flow = "newSite" THEN "newSite" ELSE "editRecord"

\* the text the suspended handler took as its snapshot is still the current one
SnapshotCurrent ==
    IF editor.flow = "config"
    THEN CanRead(fs, configPath) /\ editor.initialContent = readFileSync(fs, configPath)
    ELSE IF editor.flow = "record"
    THEN /\ CanRead(fs, Join(config.sitesAvailable, editor.name))
         /\ editor.initialContent = readFileSync(fs, Join(config.sitesAvailable, editor.name))
    ELSE editor.initialContent =
             (IF lastFailedNewSiteContent # NoDraft THEN lastFailedNewSiteContent
              ELSE Template(config))

====
